---------------------------- MODULE Spec2Model ----------------------------
(***************************************************************************)
(* Cluster evaluation engine of src/cluster/cluster.py: the orchestrator   *)
(* calcPrecisionRecallFMeasure, the three overlap histograms and the       *)
(* three overall metrics.  Floats are modelled as exact fractions <<n, d>> *)
(* in lowest terms, strings as sequences of atoms (a word chunk, "-" or    *)
(* " "), a dict as a function, a cluster as a record with a sources field. *)
(***************************************************************************)
EXTENDS Integers, Sequences, FiniteSets, TLC

(***************************************************************************)
(* Bounds of the model.                                                    *)
(***************************************************************************)
MaxCats == 2
MaxClusters == 2
MaxPairs == 4
MaxBase == 1
MaxElapsed == 1

(***************************************************************************)
(* Module constants of cluster.py.                                         *)
(***************************************************************************)
NONVERBOSE == 0
VERBOSE == 1
VERBOSEFILE == 2

(***************************************************************************)
(* Input universe: sources, tag strings, tag indexes, ground truths.       *)
(***************************************************************************)
Sources == {"a", "b", "c"}

NewsPolitics == <<"news", "-", "politics">>
SportsNews == <<"sports", "-", "news">>
SixTags == <<"u", "-", "v", "-", "w", "-", "x", "-", "y", "-", "z">>
TagStrings == {NewsPolitics, SportsNews, SixTags}

ScenarioTags == [s \in Sources |-> IF s = "c" THEN SportsNews ELSE NewsPolitics]
DeepTags == [s \in Sources |->
               IF s = "a" THEN SixTags ELSE IF s = "b" THEN NewsPolitics ELSE SportsNews]
PartialTags == [s \in {"a", "b"} |-> IF s = "a" THEN NewsPolitics ELSE SportsNews]
TagIndexes == {ScenarioTags, DeepTags, PartialTags}

SourceSets == (SUBSET Sources) \ {{}}

\* every dict of at most n categories, key a tag string, value a non-empty source set
GroundTruthsUpTo(n) ==
    UNION {[K -> SourceSets] : K \in {X \in SUBSET TagStrings : Cardinality(X) <= n}}

ScenarioGT == [k \in {NewsPolitics, SportsNews} |->
                 IF k = NewsPolitics THEN {"a", "b"} ELSE {"c"}]
SingletonGT == [k \in {SixTags, NewsPolitics} |-> IF k = SixTags THEN {"a"} ELSE {"b"}]
OverlapGT == [k \in {NewsPolitics, SportsNews} |->
                IF k = NewsPolitics THEN {"a", "b"} ELSE {"b", "c"}]

\* every list of at most n clusters, each with a non-empty source set
RECURSIVE ClusterListsUpTo(_)
ClusterListsUpTo(n) ==
    IF n = 0 THEN {<<>>}
    ELSE LET shorter == ClusterListsUpTo(n - 1)
         IN  shorter \cup {Append(cs, [sources |-> S]) :
                             cs \in {x \in shorter : Len(x) = n - 1}, S \in SourceSets}

Betas == {1, 2}

(***************************************************************************)
(* Float arithmetic, as exact fractions in lowest terms.                   *)
(***************************************************************************)
RECURSIVE GCD(_, _)
GCD(x, y) == IF y = 0 THEN x ELSE GCD(y, x % y)

Frac(n, d) == LET g == GCD(n, d) IN <<n \div g, d \div g>>
Zero == <<0, 1>>
One == <<1, 1>>
RAdd(x, y) == Frac(x[1] * y[2] + y[1] * x[2], x[2] * y[2])
RMul(x, y) == Frac(x[1] * y[1], x[2] * y[2])
RDiv(x, y) == Frac(x[1] * y[2], x[2] * y[1])
RGt(x, y) == x[1] * y[2] > y[1] * x[2]
RLeq(x, y) == ~RGt(x, y)

\* the iteration order of dict.keys(): some fixed order of the keys
RECURSIVE KeySeq(_)
KeySeq(K) ==
    IF K = {} THEN <<>>
    ELSE LET k == CHOOSE x \in K : TRUE IN <<k>> \o KeySeq(K \ {k})

RECURSIVE SumSeq(_)
SumSeq(s) == IF s = <<>> THEN 0 ELSE Head(s) + SumSeq(Tail(s))

(***************************************************************************)
(* auxiliaries                                                             *)
(***************************************************************************)
contains(list1, list2) == \A x \in list2 : x \in list1


(***************************************************************************)
(* Tag phrases.  stringToPhrase (text.phrases) and common (clustersPlus)   *)
(* are imported: a phrase is the sequence of words of a string, common is  *)
(* the set of tokens that occur in every phrase of a list.                 *)
(***************************************************************************)
replace(string) == [i \in DOMAIN string |-> IF string[i] = "-" THEN " " ELSE string[i]]

RECURSIVE SplitWords(_, _, _)
SplitWords(string, word, phrase) ==
    IF string = <<>>
    THEN IF word = <<>> THEN phrase ELSE Append(phrase, word)
    ELSE IF Head(string) = " "
         THEN SplitWords(Tail(string), <<>>,
                         IF word = <<>> THEN phrase ELSE Append(phrase, word))
         ELSE SplitWords(Tail(string), Append(word, Head(string)), phrase)

stringToPhrase(string) == SplitWords(string, <<>>, <<>>)

Tokens(phrase) == {phrase[i] : i \in DOMAIN phrase}

\* tagList is the set of phrases of the list; the order of the list does not matter
common(tagList) ==
    IF tagList = {} THEN {}
    ELSE {t \in UNION {Tokens(p) : p \in tagList} : \A p \in tagList : t \in Tokens(p)}

\* the tagList built from a cluster's sources (lines 356-359, 391-394, 424-427)
sourceTags(cluster, tagindex) ==
    {stringToPhrase(replace(tagindex[source])) : source \in cluster.sources}

missingTag(cluster, tagindex) == \E source \in cluster.sources : source \notin DOMAIN tagindex

\* d of lines 395-397 and 428-431: the cluster's tags and the category's own tag
overlapDepth(cluster, gtcKey, tagindex) ==
    Cardinality(common(sourceTags(cluster, tagindex) \cup {stringToPhrase(replace(gtcKey))}))

RECURSIVE MaxOf(_)
MaxOf(S) == IF S = {} THEN 0
            ELSE LET x == CHOOSE y \in S : TRUE
                     m == MaxOf(S \ {x})
                 IN  IF x > m THEN x ELSE m

Ranks == 0..5

(***************************************************************************)
(* calc_tag_accuracy: clusters whose sources share exactly 5 - discrepancy *)
(* tag tokens, for discrepancy 0..5.                                       *)
(***************************************************************************)
count_match(clusters, tagindex, discrepancy) ==
    Cardinality({j \in DOMAIN clusters :
                   Cardinality(common(sourceTags(clusters[j], tagindex))) = 5 - discrepancy})

\* the exception calc_tag_accuracy ends with, "" when it returns
calc_tag_accuracy_raises(clusters, noOfClusters, groundTruthClusters, tagindex) ==
    IF \E j \in DOMAIN clusters : missingTag(clusters[j], tagindex) THEN "KeyError"
    ELSE IF noOfClusters = 0 THEN "ZeroDivisionError"
    ELSE ""

calc_tag_accuracy(clusters, noOfClusters, groundTruthClusters, tagindex) ==
    [r \in 1..6 |->
       LET i == r - 1
           countMatch == count_match(clusters, tagindex, i)
           p == SumSeq([k \in 1..i |-> count_match(clusters, tagindex, k - 1)])
       IN  <<i, countMatch, Frac(countMatch, noOfClusters),
             Frac(p + countMatch, noOfClusters)>>]

(***************************************************************************)
(* calc_ground_truth: per cluster, the best overlap depth over the         *)
(* categories whose sources the cluster contains.                          *)
(***************************************************************************)
clusterBestMatch(cluster, groundTruthClusters, tagindex) ==
    MaxOf({overlapDepth(cluster, gtcKey, tagindex) :
             gtcKey \in {k \in DOMAIN groundTruthClusters :
                           contains(cluster.sources, groundTruthClusters[k])}})

\* rows for i in (5, 4, 3, 2, 1, 0) of lines 402-411 and 436-445
overlapRows(count, total) ==
    [r \in 1..6 |->
       LET i == 6 - r
           p == SumSeq([k \in 1..(6 - i) |-> count[i + k - 1]])
       IN  <<5 - i, count[i], Frac(count[i], total), Frac(p, total)>>]

\* the exception calc_ground_truth ends with, "" when it returns
calc_ground_truth_raises(clusters, noOfClusters, groundTruthClusters, tagindex) ==
    IF \E j \in DOMAIN clusters :
          /\ \E k \in DOMAIN groundTruthClusters :
                contains(clusters[j].sources, groundTruthClusters[k])
          /\ missingTag(clusters[j], tagindex)
    THEN "KeyError"
    ELSE IF \E j \in DOMAIN clusters :
               clusterBestMatch(clusters[j], groundTruthClusters, tagindex) \notin Ranks
    THEN "KeyError"
    ELSE IF noOfClusters = 0 THEN "ZeroDivisionError"
    ELSE ""

calc_ground_truth(clusters, noOfClusters, groundTruthClusters, tagindex) ==
    LET count == [i \in Ranks |->
                    Cardinality({j \in DOMAIN clusters :
                       clusterBestMatch(clusters[j], groundTruthClusters, tagindex) = i})]
    IN  overlapRows(count, noOfClusters)

(***************************************************************************)
(* calc_gt_represented: per category, the best overlap depth over the      *)
(* clusters that contain the category's sources.                           *)
(***************************************************************************)
\* categoryBestMatch with the arguments of contains swapped
categoryBestMatchSwapped(gtcKey, clusters, groundTruthClusters, tagindex) ==
    MaxOf({overlapDepth(clusters[j], gtcKey, tagindex) :
             j \in {x \in DOMAIN clusters :
                      contains(groundTruthClusters[gtcKey], clusters[x].sources)}})

categoryBestMatch(gtcKey, clusters, groundTruthClusters, tagindex) ==
    MaxOf({overlapDepth(clusters[j], gtcKey, tagindex) :
             j \in {x \in DOMAIN clusters :
                      contains(clusters[x].sources, groundTruthClusters[gtcKey])}})

\* the exception calc_gt_represented ends with, "" when it returns
calc_gt_represented_raises(clusters, noOfClusters, groundTruthClusters, tagindex) ==
    IF \E gtcKey \in DOMAIN groundTruthClusters : \E j \in DOMAIN clusters :
          /\ contains(clusters[j].sources, groundTruthClusters[gtcKey])
          /\ missingTag(clusters[j], tagindex)
    THEN "KeyError"
    ELSE IF \E gtcKey \in DOMAIN groundTruthClusters :
               categoryBestMatch(gtcKey, clusters, groundTruthClusters, tagindex) \notin Ranks
    THEN "KeyError"
    ELSE IF Cardinality(DOMAIN groundTruthClusters) = 0 THEN "ZeroDivisionError"
    ELSE ""

calc_gt_represented(clusters, noOfClusters, groundTruthClusters, tagindex) ==
    LET count == [i \in Ranks |->
                    Cardinality({gtcKey \in DOMAIN groundTruthClusters :
                       categoryBestMatch(gtcKey, clusters, groundTruthClusters,
                                         tagindex) = i})]
    IN  overlapRows(count, Cardinality(DOMAIN groundTruthClusters))

(***************************************************************************)
(* calc_f_measure: the F-beta of the fraction columns, row by row.         *)
(***************************************************************************)
\* line 458 for row i
fMeasureDenominator(groundTruth, groundTruthRep, fBetaConstant, i) ==
    RAdd(RMul(<<fBetaConstant * fBetaConstant, 1>>, groundTruth[i][3]), groundTruthRep[i][3])

\* the exception calc_f_measure ends with, "" when it returns
calc_f_measure_raises(groundTruth, groundTruthRep, fBetaConstant) ==
    IF \E i \in DOMAIN groundTruth :
          /\ ~(groundTruth[i][3] = Zero /\ groundTruthRep[i][3] = Zero)
          /\ fMeasureDenominator(groundTruth, groundTruthRep, fBetaConstant, i) = Zero
    THEN "ZeroDivisionError"
    ELSE ""

calc_f_measure(groundTruth, groundTruthRep, fBetaConstant) ==
    [i \in DOMAIN groundTruth |->
       <<groundTruth[i][1],
         IF groundTruth[i][3] = Zero /\ groundTruthRep[i][3] = Zero THEN Zero
         ELSE RMul(<<1 + fBetaConstant * fBetaConstant, 1>>,
                   RDiv(RMul(groundTruth[i][3], groundTruthRep[i][3]),
                        fMeasureDenominator(groundTruth, groundTruthRep, fBetaConstant, i)))>>]

getOverlapResultTuple(resultsGroundTruth, position) ==
    [i \in DOMAIN resultsGroundTruth |-> resultsGroundTruth[i][position + 1]]

(***************************************************************************)
(* Overall precision, recall and F-measure (lines 464-572).                *)
(***************************************************************************)
intersectionLength(sources, cluster) == Cardinality(sources \cap cluster.sources)

\* the inner loop of lines 488-493, from cluster j on, with the running maximum
\* maxPrecision with the precisions of the clusters added up instead of maximised
RECURSIVE maxPrecisionSummed(_, _, _, _)
maxPrecisionSummed(sources, clusters, j, best) ==
    IF j > Len(clusters) THEN best
    ELSE maxPrecisionSummed(sources, clusters, j + 1,
                            RAdd(best, Frac(intersectionLength(sources, clusters[j]),
                                            Cardinality(clusters[j].sources))))

RECURSIVE maxPrecision(_, _, _, _)
maxPrecision(sources, clusters, j, best) ==
    IF j > Len(clusters) THEN best
    ELSE LET precision == Frac(intersectionLength(sources, clusters[j]),
                               Cardinality(clusters[j].sources))
         IN  maxPrecision(sources, clusters, j + 1,
                          IF RGt(precision, best) THEN precision ELSE best)

\* sumPrecision without the category factor
RECURSIVE sumPrecisionUnweighted(_, _, _, _)
sumPrecisionUnweighted(keys, groundTruthClusters, clusters, noOfSources) ==
    IF keys = <<>> THEN Zero
    ELSE RAdd(maxPrecision(groundTruthClusters[Head(keys)], clusters, 1, Zero),
              sumPrecisionUnweighted(Tail(keys), groundTruthClusters, clusters, noOfSources))

RECURSIVE sumPrecision(_, _, _, _)
sumPrecision(keys, groundTruthClusters, clusters, noOfSources) ==
    IF keys = <<>> THEN Zero
    ELSE LET sources == groundTruthClusters[Head(keys)]
             categoryFactor == Frac(Cardinality(sources), noOfSources)
         IN  RAdd(RMul(categoryFactor, maxPrecision(sources, clusters, 1, Zero)),
                  sumPrecision(Tail(keys), groundTruthClusters, clusters, noOfSources))

\* the exception calc_overall_precision ends with, "" when it returns
calc_overall_precision_raises(groundTruthClusters, clusters, noOfSources) ==
    IF /\ DOMAIN groundTruthClusters # {}
       /\ \/ noOfSources = 0
          \/ \E j \in DOMAIN clusters : clusters[j].sources = {}
    THEN "ZeroDivisionError"
    ELSE ""

calc_overall_precision(groundTruthClusters, clusters, noOfSources) ==
    sumPrecision(KeySeq(DOMAIN groundTruthClusters), groundTruthClusters, clusters, noOfSources)

\* the inner loop of lines 522-527
RECURSIVE maxRecall(_, _, _, _)
maxRecall(sources, clusters, j, best) ==
    IF j > Len(clusters) THEN best
    ELSE LET recall == Frac(intersectionLength(sources, clusters[j]), Cardinality(sources))
         IN  maxRecall(sources, clusters, j + 1, IF RGt(recall, best) THEN recall ELSE best)

\* sumRecall with every category weighted as a single source
RECURSIVE sumRecallUnitWeight(_, _, _, _)
sumRecallUnitWeight(keys, groundTruthClusters, clusters, noOfSources) ==
    IF keys = <<>> THEN Zero
    ELSE RAdd(RMul(Frac(1, noOfSources),
                   maxRecall(groundTruthClusters[Head(keys)], clusters, 1, Zero)),
              sumRecallUnitWeight(Tail(keys), groundTruthClusters, clusters, noOfSources))

RECURSIVE sumRecall(_, _, _, _)
sumRecall(keys, groundTruthClusters, clusters, noOfSources) ==
    IF keys = <<>> THEN Zero
    ELSE LET sources == groundTruthClusters[Head(keys)]
             categoryFactor == Frac(Cardinality(sources), noOfSources)
         IN  RAdd(RMul(categoryFactor, maxRecall(sources, clusters, 1, Zero)),
                  sumRecall(Tail(keys), groundTruthClusters, clusters, noOfSources))

\* the exception calc_overall_recall ends with, "" when it returns
calc_overall_recall_raises(groundTruthClusters, clusters, noOfSources) ==
    IF /\ DOMAIN groundTruthClusters # {}
       /\ \/ noOfSources = 0
          \/ /\ clusters # <<>>
             /\ \E k \in DOMAIN groundTruthClusters : groundTruthClusters[k] = {}
    THEN "ZeroDivisionError"
    ELSE ""

calc_overall_recall(groundTruthClusters, clusters, noOfSources) ==
    sumRecall(KeySeq(DOMAIN groundTruthClusters), groundTruthClusters, clusters, noOfSources)

\* line 564, executed once per (category, cluster) pair: the local is overwritten
squareBeta(fBetaConstant) == fBetaConstant * fBetaConstant

\* lines 559-568 for one pair, with the value fBetaConstant holds after line 564
pairFMeasure(sources, cluster, fBetaConstant) ==
    LET precision == Frac(intersectionLength(sources, cluster), Cardinality(cluster.sources))
        recall == Frac(intersectionLength(sources, cluster), Cardinality(sources))
        fMeasureNum == RMul(RMul(<<fBetaConstant + 1, 1>>, precision), recall)
        fMeasureDen == RAdd(RMul(<<fBetaConstant, 1>>, precision), recall)
    IN  IF fMeasureDen # Zero THEN RDiv(fMeasureNum, fMeasureDen) ELSE Zero

\* the inner loop of lines 558-570: <<maxFMeasure, fBetaConstant>> after cluster j..
RECURSIVE maxFMeasure(_, _, _, _, _)
maxFMeasure(sources, clusters, j, best, fBetaConstant) ==
    IF j > Len(clusters) THEN <<best, fBetaConstant>>
    ELSE LET beta == squareBeta(fBetaConstant)
             fMeasure == pairFMeasure(sources, clusters[j], beta)
         IN  maxFMeasure(sources, clusters, j + 1,
                         IF RGt(fMeasure, best) THEN fMeasure ELSE best, beta)

\* the outer loop of lines 552-571; fBetaConstant is carried from category to category
RECURSIVE sumFMeasure(_, _, _, _, _, _)
sumFMeasure(keys, groundTruthClusters, clusters, noOfSources, fBetaConstant, overall) ==
    IF keys = <<>> THEN overall
    ELSE LET sources == groundTruthClusters[Head(keys)]
             categoryFactor == Frac(Cardinality(sources), noOfSources)
             inner == maxFMeasure(sources, clusters, 1, Zero, fBetaConstant)
         IN  sumFMeasure(Tail(keys), groundTruthClusters, clusters, noOfSources, inner[2],
                         RAdd(overall, RMul(categoryFactor, inner[1])))

\* the exception calc_overall_fmeasure ends with, "" when it returns
calc_overall_fmeasure_raises(groundTruthClusters, clusters, noOfSources, fBetaConstant) ==
    IF /\ DOMAIN groundTruthClusters # {}
       /\ \/ noOfSources = 0
          \/ \E j \in DOMAIN clusters : clusters[j].sources = {}
          \/ /\ clusters # <<>>
             /\ \E k \in DOMAIN groundTruthClusters : groundTruthClusters[k] = {}
    THEN "ZeroDivisionError"
    ELSE ""

calc_overall_fmeasure(groundTruthClusters, clusters, noOfSources, fBetaConstant) ==
    sumFMeasure(KeySeq(DOMAIN groundTruthClusters), groundTruthClusters, clusters,
                noOfSources, fBetaConstant, Zero)

\* dropSingletonGroundTruthClusters keeping every category but the one-member ones
dropExactlySingletons(gtcIndex) ==
    [k \in {x \in DOMAIN gtcIndex : Cardinality(gtcIndex[x]) # 1} |-> gtcIndex[k]]

dropSingletonGroundTruthClusters(gtcIndex) ==
    [k \in {x \in DOMAIN gtcIndex : Cardinality(gtcIndex[x]) > 1} |-> gtcIndex[k]]

(***************************************************************************)
(* State of one call of calcPrecisionRecallFMeasure.                       *)
(***************************************************************************)
VARIABLES
    clusterSettings,        \* the settings object read at lines 69-75
    groundTruthClusters,    \* the local of lines 73-77
    noOfBaseClusters,       \* line 97
    clusters,               \* lines 99-104, <<>> for None
    timeToCluster,          \* line 107
    resultsTagAccuracy,     \* line 128
    resultsGroundTruth,     \* line 133
    resultsGroundTruthRep,  \* line 138
    resultsFMeasure,        \* line 143
    precision,              \* line 147
    recall,                 \* line 151
    fMeasure,               \* line 155
    output,                 \* where the report went: "none", "console" or "file"
    result,                 \* the returned tuple, <<>> before the return
    raised,                 \* the exception that ended the call, "" if none
    pc                      \* the statement the call is at

vars == <<clusterSettings, groundTruthClusters, noOfBaseClusters, clusters, timeToCluster,
          resultsTagAccuracy, resultsGroundTruth, resultsGroundTruthRep, resultsFMeasure,
          precision, recall, fMeasure, output, result, raised, pc>>

noOfSources == Cardinality(DOMAIN clusterSettings.tagIndex)
noOfClusters == Len(clusters)
noOfGTClusters == Cardinality(DOMAIN groundTruthClusters)

Locals0 ==
    /\ noOfBaseClusters = 0
    /\ clusters = <<>>
    /\ timeToCluster = 0
    /\ resultsTagAccuracy = <<>>
    /\ resultsGroundTruth = <<>>
    /\ resultsGroundTruthRep = <<>>
    /\ resultsFMeasure = <<>>
    /\ precision = <<>>
    /\ recall = <<>>
    /\ fMeasure = <<>>
    /\ output = "none"
    /\ result = <<>>
    /\ raised = ""

Init ==
    /\ clusterSettings \in [dropSingletonGTClusters : {0, 1},
                            tagIndex : TagIndexes,
                            groundTruthClusters : {ScenarioGT, SingletonGT, OverlapGT},
                            fBetaConstant : Betas,
                            verbosity : {NONVERBOSE, VERBOSE, VERBOSEFILE}]
    /\ groundTruthClusters = clusterSettings.groundTruthClusters
    /\ Locals0
    /\ pc = "settings"

\* lines 69-77
ReadSettings ==
    /\ pc = "settings"
    /\ groundTruthClusters' =
          IF clusterSettings.dropSingletonGTClusters = 1
          THEN dropSingletonGroundTruthClusters(clusterSettings.groundTruthClusters)
          ELSE clusterSettings.groundTruthClusters
    /\ pc' = "base_clusters"
    /\ UNCHANGED <<clusterSettings, noOfBaseClusters, clusters, timeToCluster,
                   resultsTagAccuracy, resultsGroundTruth, resultsGroundTruthRep,
                   resultsFMeasure, precision, recall, fMeasure, output, result, raised>>

\* lines 80-97: the tree and the base clusters come from the imported collaborators
ExtractBaseClusters ==
    /\ pc = "base_clusters"
    /\ \E n \in 0..MaxBase : noOfBaseClusters' = n
    /\ pc' = "clusters"
    /\ UNCHANGED <<clusterSettings, groundTruthClusters, clusters, timeToCluster,
                   resultsTagAccuracy, resultsGroundTruth, resultsGroundTruthRep,
                   resultsFMeasure, precision, recall, fMeasure, output, result, raised>>

\* lines 98-107: merge, make and drop clusters unless there is no base cluster; stop the clock
MakeClusters ==
    /\ pc = "clusters"
    /\ IF noOfBaseClusters # 0
       THEN \E cs \in ClusterListsUpTo(MaxClusters) :
               /\ Len(cs) * noOfGTClusters <= MaxPairs
               /\ clusters' = cs
       ELSE clusters' = <<>>
    /\ \E elapsed \in 0..MaxElapsed : timeToCluster' = elapsed
    /\ pc' = "exits"
    /\ UNCHANGED <<clusterSettings, groundTruthClusters, noOfBaseClusters,
                   resultsTagAccuracy, resultsGroundTruth, resultsGroundTruthRep,
                   resultsFMeasure, precision, recall, fMeasure, output, result, raised>>

zeros == [i \in 1..5 |-> Zero]

\* the exit of lines 109-114 with the elapsed time left out of the result
NoBaseClustersExitUntimed ==
    /\ pc = "exits"
    /\ noOfBaseClusters = 0
    /\ result' = <<<<0, 0, noOfBaseClusters>>, <<Zero, Zero, Zero>>, zeros, zeros, zeros>>
    /\ pc' = "returned"
    /\ UNCHANGED <<clusterSettings, groundTruthClusters, noOfBaseClusters, clusters,
                   timeToCluster, resultsTagAccuracy, resultsGroundTruth,
                   resultsGroundTruthRep, resultsFMeasure, precision, recall, fMeasure,
                   output, raised>>

\* lines 109-114
NoBaseClustersExit ==
    /\ pc = "exits"
    /\ noOfBaseClusters = 0
    /\ result' = <<<<timeToCluster, 0, noOfBaseClusters>>, <<Zero, Zero, Zero>>,
                   zeros, zeros, zeros>>
    /\ pc' = "returned"
    /\ UNCHANGED <<clusterSettings, groundTruthClusters, noOfBaseClusters, clusters,
                   timeToCluster, resultsTagAccuracy, resultsGroundTruth,
                   resultsGroundTruthRep, resultsFMeasure, precision, recall, fMeasure,
                   output, raised>>

\* the exit of lines 116-126 reporting no base clusters either
NoClustersExitNoBase ==
    /\ pc = "exits"
    /\ noOfBaseClusters # 0
    /\ noOfClusters = 0
    /\ result' = <<<<timeToCluster, 0, 0>>, <<Zero, Zero, Zero>>, zeros, zeros, zeros>>
    /\ pc' = "returned"
    /\ UNCHANGED <<clusterSettings, groundTruthClusters, noOfBaseClusters, clusters,
                   timeToCluster, resultsTagAccuracy, resultsGroundTruth,
                   resultsGroundTruthRep, resultsFMeasure, precision, recall, fMeasure,
                   output, raised>>

\* lines 116-126
NoClustersExit ==
    /\ pc = "exits"
    /\ noOfBaseClusters # 0
    /\ noOfClusters = 0
    /\ result' = <<<<timeToCluster, 0, noOfBaseClusters>>, <<Zero, Zero, Zero>>,
                   zeros, zeros, zeros>>
    /\ pc' = "returned"
    /\ UNCHANGED <<clusterSettings, groundTruthClusters, noOfBaseClusters, clusters,
                   timeToCluster, resultsTagAccuracy, resultsGroundTruth,
                   resultsGroundTruthRep, resultsFMeasure, precision, recall, fMeasure,
                   output, raised>>

\* a call made at position at: it raises, or its value is stored and the call goes on
Step(at, exception, next) ==
    /\ pc = at
    /\ raised' = exception
    /\ pc' = IF exception # "" THEN "failed" ELSE next
    /\ UNCHANGED <<clusterSettings, groundTruthClusters, noOfBaseClusters, clusters,
                   timeToCluster, output, result>>

\* lines 116-131
TagAccuracy ==
    /\ noOfBaseClusters # 0
    /\ noOfClusters # 0
    /\ LET e == calc_tag_accuracy_raises(clusters, noOfClusters, groundTruthClusters,
                                         clusterSettings.tagIndex)
       IN  /\ Step("exits", e, "ground_truth")
           /\ resultsTagAccuracy' =
                 IF e # "" THEN resultsTagAccuracy
                 ELSE calc_tag_accuracy(clusters, noOfClusters, groundTruthClusters,
                                        clusterSettings.tagIndex)
    /\ UNCHANGED <<resultsGroundTruth, resultsGroundTruthRep, resultsFMeasure,
                   precision, recall, fMeasure>>

\* lines 133-136
GroundTruth ==
    /\ LET e == calc_ground_truth_raises(clusters, noOfClusters, groundTruthClusters,
                                         clusterSettings.tagIndex)
       IN  /\ Step("ground_truth", e, "gt_represented")
           /\ resultsGroundTruth' =
                 IF e # "" THEN resultsGroundTruth
                 ELSE calc_ground_truth(clusters, noOfClusters, groundTruthClusters,
                                        clusterSettings.tagIndex)
    /\ UNCHANGED <<resultsTagAccuracy, resultsGroundTruthRep, resultsFMeasure,
                   precision, recall, fMeasure>>

\* lines 138-141
GroundTruthRep ==
    /\ LET e == calc_gt_represented_raises(clusters, noOfClusters, groundTruthClusters,
                                           clusterSettings.tagIndex)
       IN  /\ Step("gt_represented", e, "f_measure")
           /\ resultsGroundTruthRep' =
                 IF e # "" THEN resultsGroundTruthRep
                 ELSE calc_gt_represented(clusters, noOfClusters, groundTruthClusters,
                                          clusterSettings.tagIndex)
    /\ UNCHANGED <<resultsTagAccuracy, resultsGroundTruth, resultsFMeasure,
                   precision, recall, fMeasure>>

\* lines 143-145
FMeasureByRank ==
    /\ pc = "f_measure"
    /\ LET e == calc_f_measure_raises(resultsGroundTruth, resultsGroundTruthRep,
                                      clusterSettings.fBetaConstant)
       IN  /\ Step("f_measure", e, "overall_precision")
           /\ resultsFMeasure' =
                 IF e # "" THEN resultsFMeasure
                 ELSE calc_f_measure(resultsGroundTruth, resultsGroundTruthRep,
                                     clusterSettings.fBetaConstant)
    /\ UNCHANGED <<resultsTagAccuracy, resultsGroundTruth, resultsGroundTruthRep,
                   precision, recall, fMeasure>>

\* lines 147-149
OverallPrecision ==
    /\ LET e == calc_overall_precision_raises(groundTruthClusters, clusters, noOfSources)
       IN  /\ Step("overall_precision", e, "overall_recall")
           /\ precision' =
                 IF e # "" THEN precision
                 ELSE calc_overall_precision(groundTruthClusters, clusters, noOfSources)
    /\ UNCHANGED <<resultsTagAccuracy, resultsGroundTruth, resultsGroundTruthRep,
                   resultsFMeasure, recall, fMeasure>>

\* lines 151-153
OverallRecall ==
    /\ LET e == calc_overall_recall_raises(groundTruthClusters, clusters, noOfSources)
       IN  /\ Step("overall_recall", e, "overall_fmeasure")
           /\ recall' =
                 IF e # "" THEN recall
                 ELSE calc_overall_recall(groundTruthClusters, clusters, noOfSources)
    /\ UNCHANGED <<resultsTagAccuracy, resultsGroundTruth, resultsGroundTruthRep,
                   resultsFMeasure, precision, fMeasure>>

\* lines 155-158
OverallFMeasure ==
    /\ LET e == calc_overall_fmeasure_raises(groundTruthClusters, clusters, noOfSources,
                                             clusterSettings.fBetaConstant)
       IN  /\ Step("overall_fmeasure", e, "report")
           /\ fMeasure' =
                 IF e # "" THEN fMeasure
                 ELSE calc_overall_fmeasure(groundTruthClusters, clusters, noOfSources,
                                            clusterSettings.fBetaConstant)
    /\ UNCHANGED <<resultsTagAccuracy, resultsGroundTruth, resultsGroundTruthRep,
                   resultsFMeasure, precision, recall>>

\* the report of lines 185-192 moved in front of the call of line 155
ReportBeforeFMeasure ==
    /\ pc = "overall_fmeasure"
    /\ output = "none"
    /\ clusterSettings.verbosity # NONVERBOSE
    /\ output' = IF clusterSettings.verbosity = VERBOSE THEN "console" ELSE "file"
    /\ UNCHANGED <<clusterSettings, groundTruthClusters, noOfBaseClusters, clusters,
                   timeToCluster, resultsTagAccuracy, resultsGroundTruth,
                   resultsGroundTruthRep, resultsFMeasure, precision, recall, fMeasure,
                   result, raised, pc>>

\* lines 160-192
Report ==
    /\ pc = "report"
    /\ output' = IF clusterSettings.verbosity = VERBOSE THEN "console"
                 ELSE IF clusterSettings.verbosity = VERBOSEFILE THEN "file"
                 ELSE output
    /\ pc' = "tuples"
    /\ UNCHANGED <<clusterSettings, groundTruthClusters, noOfBaseClusters, clusters,
                   timeToCluster, resultsTagAccuracy, resultsGroundTruth,
                   resultsGroundTruthRep, resultsFMeasure, precision, recall, fMeasure,
                   result, raised>>

\* lines 194-203
Return ==
    /\ pc = "tuples"
    /\ result' = <<<<timeToCluster, noOfClusters, noOfBaseClusters>>,
                   <<precision, recall, fMeasure>>,
                   getOverlapResultTuple(resultsGroundTruth, 2),
                   getOverlapResultTuple(resultsGroundTruthRep, 2),
                   getOverlapResultTuple(resultsFMeasure, 1)>>
    /\ pc' = "returned"
    /\ UNCHANGED <<clusterSettings, groundTruthClusters, noOfBaseClusters, clusters,
                   timeToCluster, resultsTagAccuracy, resultsGroundTruth,
                   resultsGroundTruthRep, resultsFMeasure, precision, recall, fMeasure,
                   output, raised>>

Next ==
    \/ ReadSettings
    \/ ExtractBaseClusters
    \/ MakeClusters
    \/ NoBaseClustersExit
    \/ NoClustersExit
    \/ TagAccuracy
    \/ GroundTruth
    \/ GroundTruthRep
    \/ FMeasureByRank
    \/ OverallPrecision
    \/ OverallRecall
    \/ OverallFMeasure
    \/ Report
    \/ Return

Spec == Init /\ [][Next]_vars

(***************************************************************************)
(* The three overall metrics as functions of their arguments: the call     *)
(* starts at line 147 with any ground truth, cluster list and beta.        *)
(***************************************************************************)
InitMetrics ==
    /\ \E gt \in GroundTruthsUpTo(MaxCats) :
          /\ clusterSettings \in [dropSingletonGTClusters : {0},
                                  tagIndex : {ScenarioTags, PartialTags},
                                  groundTruthClusters : {gt},
                                  fBetaConstant : Betas,
                                  verbosity : {NONVERBOSE}]
          /\ groundTruthClusters = gt
    /\ noOfBaseClusters = 0
    /\ clusters \in {cs \in ClusterListsUpTo(MaxClusters) :
                       Len(cs) * noOfGTClusters <= MaxPairs}
    /\ timeToCluster = 0
    /\ resultsTagAccuracy = <<>>
    /\ resultsGroundTruth = <<>>
    /\ resultsGroundTruthRep = <<>>
    /\ resultsFMeasure = <<>>
    /\ precision = <<>>
    /\ recall = <<>>
    /\ fMeasure = <<>>
    /\ output = "none"
    /\ result = <<>>
    /\ raised = ""
    /\ pc = "overall_precision"

NextMetrics ==
    \/ OverallPrecision
    \/ OverallRecall
    \/ OverallFMeasure

SpecMetrics == InitMetrics /\ [][NextMetrics]_vars

(***************************************************************************)
(* The two best-match histograms as functions of their arguments: the call *)
(* is at line 133 with any ground truth, any cluster list that passed the  *)
(* exit of line 121, and any tag index.                                    *)
(***************************************************************************)
InitHistograms ==
    /\ \E gt \in GroundTruthsUpTo(MaxCats) :
          /\ clusterSettings \in [dropSingletonGTClusters : {0},
                                  tagIndex : TagIndexes,
                                  groundTruthClusters : {gt},
                                  fBetaConstant : {1},
                                  verbosity : {NONVERBOSE}]
          /\ groundTruthClusters = gt
    /\ noOfBaseClusters = 1
    /\ clusters \in {cs \in ClusterListsUpTo(MaxClusters) :
                       cs # <<>> /\ Len(cs) * noOfGTClusters <= MaxPairs}
    /\ timeToCluster = 0
    /\ resultsTagAccuracy = <<>>
    /\ resultsGroundTruth = <<>>
    /\ resultsGroundTruthRep = <<>>
    /\ resultsFMeasure = <<>>
    /\ precision = <<>>
    /\ recall = <<>>
    /\ fMeasure = <<>>
    /\ output = "none"
    /\ result = <<>>
    /\ raised = ""
    /\ pc = "ground_truth"

NextHistograms ==
    \/ GroundTruth
    \/ GroundTruthRep

SpecHistograms == InitHistograms /\ [][NextHistograms]_vars

(***************************************************************************)
(* The singleton drop as a function of its argument: lines 69-77 with any  *)
(* ground truth, categories without members included.                      *)
(***************************************************************************)
\* every dict of at most n categories, key a tag string, value any source set
AnyGroundTruthsUpTo(n) ==
    UNION {[K -> SUBSET Sources] : K \in {X \in SUBSET TagStrings : Cardinality(X) <= n}}

InitDrop ==
    /\ clusterSettings \in [dropSingletonGTClusters : {0, 1},
                            tagIndex : {ScenarioTags},
                            groundTruthClusters : AnyGroundTruthsUpTo(MaxCats),
                            fBetaConstant : {1},
                            verbosity : {NONVERBOSE}]
    /\ groundTruthClusters = clusterSettings.groundTruthClusters
    /\ Locals0
    /\ pc = "settings"

NextDrop == ReadSettings

SpecDrop == InitDrop /\ [][NextDrop]_vars

(***************************************************************************)
(* Properties.                                                             *)
(***************************************************************************)
\* the concrete scenario: tags of a, b, c, two categories, one cluster {a, b}
ScenarioCase ==
    /\ clusterSettings.tagIndex = ScenarioTags
    /\ groundTruthClusters = ScenarioGT
    /\ clusters = <<[sources |-> {"a", "b"}]>>

\* C1 as stated: in the scenario calc_overall_precision returns 1.0
C1_ScenarioPrecisionIsOne ==
    (ScenarioCase /\ precision # <<>>) => precision = One

\* C1, amended: in the scenario calc_overall_precision returns 2/3, the category
\* "sports-news" weighing 1/3 at best precision 0
C1_ScenarioPrecisionIsTwoThirds ==
    (ScenarioCase /\ precision # <<>>) =>
        /\ precision = <<2, 3>>
        /\ maxPrecision(groundTruthClusters[SportsNews], clusters, 1, Zero) = Zero

C1_Witness == ScenarioCase /\ precision = <<2, 3>>

\* C2: in the scenario calc_overall_recall returns 2/3: "news-politics" weighs 2/3
\* at best recall 1, "sports-news" weighs 1/3 at best recall 0
C2_ScenarioRecall ==
    (ScenarioCase /\ recall # <<>>) =>
        /\ recall = <<2, 3>>
        /\ Frac(Cardinality(groundTruthClusters[NewsPolitics]), noOfSources) = <<2, 3>>
        /\ maxRecall(groundTruthClusters[NewsPolitics], clusters, 1, Zero) = One
        /\ Frac(Cardinality(groundTruthClusters[SportsNews]), noOfSources) = <<1, 3>>
        /\ maxRecall(groundTruthClusters[SportsNews], clusters, 1, Zero) = Zero

C2_Witness == ScenarioCase /\ recall = <<2, 3>> /\ pc = "overall_fmeasure"

InUnitInterval(x) == x[1] >= 0 /\ x[2] > 0 /\ RLeq(x, One)

NonEmptyInputs == clusters # <<>> /\ DOMAIN groundTruthClusters # {}

\* C3 as stated: for a non-empty cluster list and a non-empty ground truth, overall
\* precision and overall recall each lie in [0, 1]
C3_MetricsInUnitInterval ==
    NonEmptyInputs =>
        /\ precision # <<>> => InUnitInterval(precision)
        /\ recall # <<>> => InUnitInterval(recall)

DisjointCategories ==
    \A k1, k2 \in DOMAIN groundTruthClusters :
        k1 # k2 => groundTruthClusters[k1] \cap groundTruthClusters[k2] = {}

CategoriesInTagIndex ==
    \A k \in DOMAIN groundTruthClusters :
        groundTruthClusters[k] \subseteq DOMAIN clusterSettings.tagIndex

\* C3, amended: when the categories are pairwise disjoint and hold only sources of
\* the tag index, overall precision and overall recall each lie in [0, 1]
C3_DisjointMetricsInUnitInterval ==
    (NonEmptyInputs /\ DisjointCategories /\ CategoriesInTagIndex) =>
        /\ precision # <<>> => InUnitInterval(precision)
        /\ recall # <<>> => InUnitInterval(recall)

C3_Witness ==
    /\ NonEmptyInputs /\ DisjointCategories /\ CategoriesInTagIndex
    /\ Cardinality(DOMAIN groundTruthClusters) = 2
    /\ precision = One
    /\ recall = One

\* the F-measure of one pair as C4 states it, beta being the caller's constant
statedPairFMeasure(sources, cluster, beta) ==
    LET p == Frac(intersectionLength(sources, cluster), Cardinality(cluster.sources))
        r == Frac(intersectionLength(sources, cluster), Cardinality(sources))
        den == RAdd(RMul(<<beta * beta, 1>>, p), r)
    IN  IF den = Zero THEN Zero
        ELSE RDiv(RMul(RMul(<<1 + beta * beta, 1>>, p), r), den)

RECURSIVE RMax(_)
RMax(S) == IF S = {} THEN Zero
           ELSE LET x == CHOOSE y \in S : TRUE
                    m == RMax(S \ {x})
                IN  IF RGt(x, m) THEN x ELSE m

RECURSIVE statedOverallFMeasure(_, _)
statedOverallFMeasure(keys, beta) ==
    IF keys = {} THEN Zero
    ELSE LET k == CHOOSE x \in keys : TRUE
         IN  RAdd(RMul(Frac(Cardinality(groundTruthClusters[k]), noOfSources),
                       RMax({statedPairFMeasure(groundTruthClusters[k], clusters[j], beta) :
                               j \in DOMAIN clusters})),
                  statedOverallFMeasure(keys \ {k}, beta))

\* C4: calc_overall_fmeasure returns the sum over the categories of the category
\* weight times the best F-beta over the clusters, every pair's F-beta computed
\* with the caller's beta
C4_FMeasureUsesCallersBeta ==
    fMeasure # <<>> =>
        fMeasure = statedOverallFMeasure(DOMAIN groundTruthClusters,
                                         clusterSettings.fBetaConstant)

countSum(rows) == SumSeq([r \in 1..6 |-> rows[r][2]])

\* C5: in each of the three histograms the counts of the six rows add up to the
\* histogram's denominator: the number of clusters for tag accuracy and coverage,
\* the number of categories for representation
C5_RowsSumToTotal ==
    /\ resultsTagAccuracy # <<>> => countSum(resultsTagAccuracy) = noOfClusters
    /\ resultsGroundTruth # <<>> => countSum(resultsGroundTruth) = noOfClusters
    /\ resultsGroundTruthRep # <<>> => countSum(resultsGroundTruthRep) = noOfGTClusters

cumulative(rows) ==
    /\ \A r \in 1..5 : RLeq(rows[r][4], rows[r + 1][4])
    /\ rows[6][4] = One

\* C6: in each of the three histograms the cumulative fraction does not decrease
\* from a row to the next and is 1.0 in the last row
C6_CumulativeReachesOne ==
    /\ resultsTagAccuracy # <<>> => cumulative(resultsTagAccuracy)
    /\ resultsGroundTruth # <<>> => cumulative(resultsGroundTruth)
    /\ resultsGroundTruthRep # <<>> => cumulative(resultsGroundTruthRep)

\* C7: whenever a histogram is about to be computed its denominator is not zero,
\* and no call ends with a division by zero
C7_NoZeroDenominator ==
    /\ pc = "ground_truth" => noOfClusters # 0
    /\ pc = "gt_represented" => noOfGTClusters # 0
    /\ raised # "ZeroDivisionError"

NothingEvaluated ==
    /\ resultsTagAccuracy = <<>>
    /\ resultsGroundTruth = <<>>
    /\ resultsGroundTruthRep = <<>>
    /\ resultsFMeasure = <<>>
    /\ precision = <<>>
    /\ recall = <<>>
    /\ fMeasure = <<>>
    /\ output = "none"

AfterClustering == pc \notin {"settings", "base_clusters", "clusters"}

allZero(first) ==
    <<first, <<Zero, Zero, Zero>>, <<Zero, Zero, Zero, Zero, Zero>>,
      <<Zero, Zero, Zero, Zero, Zero>>, <<Zero, Zero, Zero, Zero, Zero>>>>

C10_DocumentedShape ==
    pc = "returned" =>
        /\ Len(result) = 5
        /\ Len(result[1]) = 3
        /\ Len(result[2]) = 3
        /\ Len(result[3]) = 6
        /\ Len(result[4]) = 6
        /\ Len(result[5]) = 6

\* d is the best of the depths D: their maximum, 0 when there is none
isBestDepth(d, D) == d \in D \cup {0} /\ \A x \in D : x <= d

\* the depths of the categories whose sources are a subset of cluster j's sources
coverageDepths(j) ==
    {overlapDepth(clusters[j], k, clusterSettings.tagIndex) :
       k \in {x \in DOMAIN groundTruthClusters :
                groundTruthClusters[x] \subseteq clusters[j].sources}}

\* the depths of the clusters whose sources are a subset of category k's sources
containedClusterDepths(k) ==
    {overlapDepth(clusters[j], k, clusterSettings.tagIndex) :
       j \in {x \in DOMAIN clusters : clusters[x].sources \subseteq groundTruthClusters[k]}}

\* the depths of the clusters whose sources include all of category k's sources
containingClusterDepths(k) ==
    {overlapDepth(clusters[j], k, clusterSettings.tagIndex) :
       j \in {x \in DOMAIN clusters : groundTruthClusters[k] \subseteq clusters[x].sources}}

\* the row of overlap depth i holds the count of the clusters whose best depth is i
coverageByBestDepth ==
    \A i \in Ranks :
        resultsGroundTruth[6 - i][2] =
            Cardinality({j \in DOMAIN clusters : isBestDepth(i, coverageDepths(j))})

AllClustersTagged ==
    \A j \in DOMAIN clusters : ~missingTag(clusters[j], clusterSettings.tagIndex)

\* C11 as stated, where every source of a cluster has a tag: in both searches only
\* the opposite members whose sources are a subset of the driving entity's sources
\* are considered, and the best depth is the maximum over them, 0 if there is none
C11_OppositeSubsetOfDriving ==
    AllClustersTagged =>
        /\ resultsGroundTruth # <<>> => coverageByBestDepth
        /\ resultsGroundTruthRep # <<>> =>
              \A i \in Ranks :
                  resultsGroundTruthRep[6 - i][2] =
                      Cardinality({k \in DOMAIN groundTruthClusters :
                                     isBestDepth(i, containedClusterDepths(k))})

\* C11, amended: in both searches a cluster and a category are matched only if the
\* category's sources are a subset of the cluster's sources; the best depth of a
\* driving entity is the maximum over its matches, 0 if there is none
C11_CategorySubsetOfCluster ==
    /\ resultsGroundTruth # <<>> => coverageByBestDepth
    /\ resultsGroundTruthRep # <<>> =>
          \A i \in Ranks :
              resultsGroundTruthRep[6 - i][2] =
                  Cardinality({k \in DOMAIN groundTruthClusters :
                                 isBestDepth(i, containingClusterDepths(k))})

\* the scenario: "sports-news" = {c} against the cluster {a, b} is counted at depth
\* 0, "news-politics" = {a, b} at depth 2, the cluster itself at depth 2
C11_Witness ==
    /\ ScenarioCase
    /\ resultsGroundTruth # <<>>
    /\ resultsGroundTruthRep # <<>>
    /\ resultsGroundTruthRep[6][2] = 1
    /\ resultsGroundTruthRep[4][2] = 1
    /\ resultsGroundTruth[4][2] = 1

Dropped == pc = "base_clusters" /\ clusterSettings.dropSingletonGTClusters = 1

\* the mapping in use is the given one restricted to the categories K
restrictedTo(K) ==
    /\ DOMAIN groundTruthClusters = K
    /\ \A k \in K : groundTruthClusters[k] = clusterSettings.groundTruthClusters[k]

AllMetricsComputed ==
    /\ resultsTagAccuracy # <<>>
    /\ resultsGroundTruth # <<>>
    /\ resultsGroundTruthRep # <<>>
    /\ resultsFMeasure # <<>>
    /\ precision # <<>>
    /\ recall # <<>>
    /\ fMeasure # <<>>

\* C13: the report is printed or written only after the three histograms, the
\* F-measure table and the three overall metrics have been computed, so a call that
\* a metric computation ends with an exception has emitted no report, whatever the
\* verbosity
C13_ReportAfterMetrics ==
    /\ output # "none" => (AllMetricsComputed /\ raised = "")
    /\ pc = "failed" => (raised # "" /\ output = "none")

C13_Witness ==
    /\ pc = "tuples"
    /\ clusterSettings.verbosity = VERBOSEFILE
    /\ output = "file"
    /\ AllMetricsComputed

=============================================================================
